---- MODULE Spec2Model ----
(***************************************************************************)
(* A model of datalad_tabby/io/load_utils.py: the helpers that assemble a  *)
(* tabby record (import trace guard, row aggregation, compaction, override *)
(* interpolation, class-default path resolution).                          *)
(*                                                                         *)
(* Python values are encoded as records of one shape, so that any two      *)
(* values can be compared:                                                 *)
(*   [kind |-> "str",   s |-> text, l |-> <<>>]       a str                *)
(*   [kind |-> "other", s |-> text, l |-> <<>>]       a non-str scalar     *)
(*   [kind |-> "list",  s |-> "",   l |-> <<v1, ...>>] a list              *)
(*   [kind |-> "dict",  s |-> "",   l |-> <<e1, ...>>] a dict, its entries *)
(*   [kind |-> "entry", s |-> key,  l |-> <<value>>]   one entry of a dict *)
(* A top-level object (the dict a function builds or compacts) is a TLA+   *)
(* function from its keys to values.  File names are sequences of          *)
(* one-character strings, paths are sequences of file names.               *)
(***************************************************************************)
EXTENDS Integers, Sequences, FiniteSets, TLC

VARIABLES
    pc,         \* position of the caller of the component being run
    trace,      \* the one shared import trace (a Python list, mutated in place)
    src,        \* argument of the last _build_import_trace call
    pre,        \* the trace as it was before the last call
    ret,        \* value returned by the last call (the same list object)
    refs,       \* assembly: file -> set of files it references
    stack,      \* assembly: frames [file, todo] of the files being assembled
    vals,       \* row aggregation: the rawValues list object
    vals0,      \* row aggregation: rawValues as first passed in
    fieldnames, \* row aggregation: the header
    obj,        \* the object built by the first call / given to a function
    obj2,       \* the object built by a second call / the function's result
    fs,         \* the set of paths that exist on disk
    fpath,      \* path resolution: the candidate
    cpaths,     \* class search paths
    orspec      \* content of the override file

vars == <<pc, trace, src, pre, ret, refs, stack, vals, vals0, fieldnames,
          obj, obj2, fs, fpath, cpaths, orspec>>

\* ---------------------------------------------------------------- bounds

NumFiles == 4
NumNodes == 3
FileNames == <<"a.tsv", "b.tsv", "c.tsv", "d.tsv", "e.tsv", "f.tsv">>
Files == {FileNames[i] : i \in 1..NumFiles}
Nodes == {FileNames[i] : i \in 1..NumNodes}

\* ---------------------------------------------------------------- values

Str(t) == [kind |-> "str", s |-> t, l |-> <<>>]
Other(t) == [kind |-> "other", s |-> t, l |-> <<>>]
ListV(q) == [kind |-> "list", s |-> "", l |-> q]
DictV(q) == [kind |-> "dict", s |-> "", l |-> q]
Entry(k, v) == [kind |-> "entry", s |-> k, l |-> <<v>>]
EmptyObj == [k \in {} |-> Str("")]

Range(q) == {q[i] : i \in 1..Len(q)}
IsPrefix(p, q) == Len(p) <= Len(q) /\ SubSeq(q, 1, Len(p)) = p
NoDuplicates(q) == \A i, j \in 1..Len(q) : i # j => q[i] # q[j]

\* Python truthiness: "if v" / "if not v"
Truthy(v) ==
    CASE v.kind = "str" -> v.s # ""
      [] v.kind = "other" -> v.s \notin {"0", "None", "False"}
      [] OTHER -> Len(v.l) > 0

\* isinstance(v, (dict, list))
IsContainer(v) == v.kind \in {"list", "dict"}

\* ------------------------------------------------- the import trace guard

SkipsMembershipTest(s, t) == [raised |-> FALSE, trace |-> Append(t, s)]
TestsLastOnly(s, t) ==
    IF Len(t) > 0 /\ t[Len(t)] = s
    THEN [raised |-> TRUE, trace |-> t]
    ELSE [raised |-> FALSE, trace |-> Append(t, s)]

\* _build_import_trace(src, trace): whether it raises RecursionError, and the
\* trace list afterwards; on success the returned value is that same list.
_build_import_trace(s, t) ==
    IF s \in Range(t)
    THEN [raised |-> TRUE, trace |-> t]
    ELSE [raised |-> FALSE, trace |-> Append(t, s)]

IdleTrace == trace = <<>> /\ src = "" /\ pre = <<>> /\ ret = <<>>
IdleAssembly == refs = <<>> /\ stack = <<>>
IdleRow == vals = <<>> /\ vals0 = <<>> /\ fieldnames = <<>>
IdleObj == obj = EmptyObj /\ obj2 = EmptyObj
IdlePath == fs = {} /\ fpath = <<>> /\ cpaths = <<>> /\ orspec = EmptyObj

traceVars == <<trace, src, pre, ret>>
assemblyVars == <<refs, stack>>
rowVars == <<vals, vals0, fieldnames>>
objVars == <<obj, obj2>>
pathVars == <<fs, fpath, cpaths, orspec>>

\* Any sequence of calls on one trace, with any paths.
InitTrace ==
    /\ pc = "idle"
    /\ IdleTrace /\ IdleAssembly /\ IdleRow /\ IdleObj /\ IdlePath

CallBuildImportTrace ==
    \E s \in Files :
        LET r == _build_import_trace(s, trace) IN
        /\ src' = s
        /\ pre' = trace
        /\ trace' = r.trace
        /\ ret' = IF r.raised THEN <<>> ELSE r.trace
        /\ pc' = IF r.raised THEN "raised" ELSE "returned"
        /\ UNCHANGED <<assemblyVars, rowVars, objVars, pathVars>>

NextTrace == CallBuildImportTrace
SpecTrace == InitTrace /\ [][NextTrace]_vars

\* ------------------------------------------- depth-first assembly (driver)

\* The ordered chain of the files currently being assembled.
Chain(st) == [i \in 1..Len(st) |-> st[i].file]

InitAssembly ==
    /\ pc = "start"
    /\ refs \in [Nodes -> SUBSET Nodes]
    /\ stack = <<>>
    /\ IdleTrace /\ IdleRow /\ IdleObj /\ IdlePath

\* Enter file f: record it in the shared trace, then descend into it.
Enter(f) ==
    LET r == _build_import_trace(f, trace) IN
    /\ src' = f
    /\ pre' = trace
    /\ trace' = r.trace
    /\ ret' = IF r.raised THEN <<>> ELSE r.trace
    /\ IF r.raised
       THEN pc' = "failed" /\ stack' = stack
       ELSE pc' = "running" /\ stack' = Append(stack, [file |-> f, todo |-> refs[f]])
    /\ UNCHANGED <<refs, rowVars, objVars, pathVars>>

StartAssembly ==
    /\ pc = "start"
    /\ \E f \in Nodes : Enter(f)

Descend ==
    /\ pc = "running"
    /\ stack # <<>>
    /\ \E f \in stack[Len(stack)].todo :
        LET top == stack[Len(stack)]
            st == [stack EXCEPT ![Len(stack)] = [top EXCEPT !.todo = top.todo \ {f}]]
            r == _build_import_trace(f, trace) IN
        /\ src' = f
        /\ pre' = trace
        /\ trace' = r.trace
        /\ ret' = IF r.raised THEN <<>> ELSE r.trace
        /\ IF r.raised
           THEN pc' = "failed" /\ stack' = stack
           ELSE pc' = "running" /\ stack' = Append(st, [file |-> f, todo |-> refs[f]])
        /\ UNCHANGED <<refs, rowVars, objVars, pathVars>>

\* The assembly of the current file is complete: the call returns.  Nothing
\* is removed from the trace.
Return ==
    /\ pc = "running"
    /\ stack # <<>>
    /\ stack[Len(stack)].todo = {}
    /\ stack' = SubSeq(stack, 1, Len(stack) - 1)
    /\ pc' = IF Len(stack) = 1 THEN "done" ELSE "running"
    /\ UNCHANGED <<traceVars, refs, rowVars, objVars, pathVars>>

NextAssembly == StartAssembly \/ Descend \/ Return
SpecAssembly == InitAssembly /\ [][NextAssembly]_vars

\* C1: _build_import_trace(path, trace) raises and leaves the trace unchanged
\* when path is anywhere in the trace; otherwise it returns the old trace with
\* path appended as its last element (length + 1, earlier elements in order).
C1_BuildImportTraceContract ==
    pc \in {"raised", "returned"} =>
        /\ (src \in Range(pre)) =>
                pc = "raised" /\ trace = pre
        /\ (src \notin Range(pre)) =>
                /\ pc = "returned"
                /\ ret = trace
                /\ Len(ret) = Len(pre) + 1
                /\ SubSeq(ret, 1, Len(pre)) = pre
                /\ ret[Len(ret)] = src

\* a call that raises for a path that is in the trace, but not at its end
C1_Witness ==
    /\ pc = "raised"
    /\ Len(pre) >= 3
    /\ pre[1] = src

\* C10: starting from the empty trace, after any sequence of calls the trace
\* holds no path twice, and the trace before a call is a prefix of the trace
\* after it.
C10_TraceDuplicateFreeAndAppendOnly ==
    /\ NoDuplicates(trace)
    /\ IsPrefix(pre, trace)

\* a failing call after several successful ones
C10_Witness ==
    /\ pc = "raised"
    /\ Len(trace) >= 2
    /\ src = trace[Len(trace)]

\* the trace is the chain of the files being assembled
C2_TraceIsChain == pc = "running" => trace = Chain(stack)
\* the error is raised only for a file that is in that chain
C2_ErrorOnlyOnSelfInclusion == pc = "failed" => src \in Range(Chain(stack))

\* C2: in a depth-first assembly on the one shared trace the trace is at every
\* step the chain of the files being assembled (top-level file first, current
\* file last), and the circular-reference error is raised only for a file
\* that includes itself, directly or indirectly, never for a file reached a
\* second time through a sibling branch that has completed.
C2_TraceIsAssemblyChain == C2_TraceIsChain /\ C2_ErrorOnlyOnSelfInclusion

\* ------------------------------------------------------- row aggregation

MaxFields == 2
MaxVals == 4
FieldNameSet == {"id", "tag"}
CellSet == {Str(""), Str("a"), Str("b")}
SeqsUpTo(S, n) == UNION {[1..k -> S] : k \in 0..n}

\* q[a:] and q[:b] of Python, a and b counted from 0, negative from the end
PyIdx(i, n) == IF i < 0 THEN (IF i + n < 0 THEN 0 ELSE i + n)
               ELSE IF i > n THEN n ELSE i
SliceFrom(q, a) == SubSeq(q, PyIdx(a, Len(q)) + 1, Len(q))
SliceTo(q, b) == SubSeq(q, 1, PyIdx(b, Len(q)))

RECURSIVE ScanBack(_, _)
ScanBack(val, i) ==
    IF i >= Len(val) THEN 0
    ELSE IF Truthy(val[Len(val) - i]) THEN Len(val) - i
    ELSE ScanBack(val, i + 1)

KeepsTrailingEmpty(val) == Len(val)

_get_index_after_last_nonempty(val) == ScanBack(val, 0)

\* obj.get(k, []) and obj[k] = v
Get(o, k) == IF k \in DOMAIN o THEN o[k] ELSE ListV(<<>>)
Put(o, k, v) == [x \in DOMAIN o \cup {k} |-> IF x = k THEN v ELSE o[x]]

\* the vals list after the merge of the extra values into the last column
MergedVals(v, f) ==
    IF Len(v) > Len(f)
    THEN LET last_key_idx == Len(f) - 1
             lc_vals == SliceFrom(v, last_key_idx)
             trimmed == SliceTo(lc_vals, _get_index_after_last_nonempty(lc_vals))
             pos == (IF last_key_idx < 0 THEN last_key_idx + Len(v)
                     ELSE last_key_idx) + 1
         IN  [v EXCEPT ![pos] = ListV(trimmed)]
    ELSE v

StoreCellAlways(o, k, v) == Put(o, k, ListV(Append(Get(o, k).l, v)))

\* one turn of the loop over the field names, for a cell that exists
StoreCell(o, k, v) ==
    IF ~Truthy(v) THEN o
    ELSE Put(o, k, ListV(Append(Get(o, k).l, v)))

RECURSIVE MergeKeys(_, _, _, _)
MergeKeys(v, f, i, o) ==
    IF i > Len(f) THEN o
    ELSE IF i > Len(v) THEN MergeKeys(v, f, i + 1, o)
    ELSE MergeKeys(v, f, i + 1, StoreCell(o, f[i], v[i]))

\* _manyrow2obj(vals, fieldnames): the object returned, and the vals list as
\* the call leaves it (the list is assigned to in place).
_manyrow2obj(v, f) ==
    [obj |-> MergeKeys(MergedVals(v, f), f, 1, EmptyObj),
     vals |-> MergedVals(v, f)]

InitRow ==
    /\ pc = "row"
    /\ fieldnames \in SeqsUpTo(FieldNameSet, MaxFields)
    /\ vals0 \in SeqsUpTo(CellSet, MaxVals)
    /\ vals = vals0
    /\ IdleObj /\ IdleTrace /\ IdleAssembly /\ IdlePath

AggregateRow ==
    /\ pc = "row"
    /\ LET r == _manyrow2obj(vals, fieldnames) IN
        /\ obj' = r.obj
        /\ vals' = r.vals
    /\ pc' = "once"
    /\ UNCHANGED <<obj2, vals0, fieldnames, traceVars, assemblyVars, pathVars>>

\* a second call, given the same list object as the first
AggregateAgain ==
    /\ pc = "once"
    /\ LET r == _manyrow2obj(vals, fieldnames) IN
        /\ obj2' = r.obj
        /\ vals' = r.vals
    /\ pc' = "twice"
    /\ UNCHANGED <<obj, vals0, fieldnames, traceVars, assemblyVars, pathVars>>

NextRow == AggregateRow \/ AggregateAgain
SpecRow == InitRow /\ [][NextRow]_vars

Max(S) == CHOOSE x \in S : \A y \in S : y <= x
Once(k) == Cardinality({i \in 1..Len(fieldnames) : fieldnames[i] = k}) = 1
\* the columns of rawValues, from the last field's on, that hold a value
TailCols == {j \in Len(fieldnames)..Len(vals0) : vals0[j] # Str("")}
Overflow == Len(fieldnames) > 0 /\ Len(vals0) > Len(fieldnames)
LastField == fieldnames[Len(fieldnames)]
Combined == SubSeq(vals0, Len(fieldnames), Max(TailCols))

\* C3 as stated: with more rawValues than fieldNames the last field maps to
\* the flat combined list of the values from its column up to the last
\* non-empty one, and every earlier field with a non-empty cell maps to the
\* one-element list of that cell.
C3_LastFieldMapsToFlatCombinedList ==
    (pc = "once" /\ Overflow) =>
        /\ TailCols # {} =>
                LastField \in DOMAIN obj /\ obj[LastField] = ListV(Combined)
        /\ \A i \in 1..(Len(fieldnames) - 1) :
                vals0[i] # Str("") => obj[fieldnames[i]] = ListV(<<vals0[i]>>)

\* C3 amended: the last field's list ends with ONE nested element, the
\* combined list (values from the last field's column up to the last non-empty
\* one); when all those values are empty the last column contributes nothing;
\* an earlier column with a non-empty cell gives its field, when the field
\* name occurs once, the one-element list of that cell.
C3_LastFieldHoldsCombinedListNested ==
    (pc = "once" /\ Overflow) =>
        /\ TailCols # {} =>
                /\ LastField \in DOMAIN obj
                /\ obj[LastField].l[Len(obj[LastField].l)] = ListV(Combined)
                /\ Once(LastField) => obj[LastField] = ListV(<<ListV(Combined)>>)
        /\ (TailCols = {} /\ Once(LastField)) => LastField \notin DOMAIN obj
        /\ \A i \in 1..(Len(fieldnames) - 1) :
                (vals0[i] # Str("") /\ Once(fieldnames[i])) =>
                    obj[fieldnames[i]] = ListV(<<vals0[i]>>)

\* the spec's example with a trailing empty cell added:
\* fieldNames [id, tag], rawValues [x, a, b, ""]
C3_Witness ==
    /\ pc = "once"
    /\ fieldnames = <<"id", "tag">>
    /\ vals0 = <<Str("a"), Str("a"), Str("b"), Str("")>>
    /\ obj = [k \in {"id", "tag"} |->
                IF k = "id" THEN ListV(<<Str("a")>>)
                ELSE ListV(<<ListV(<<Str("a"), Str("b")>>)>>)]

\* C4: a second call on the same rawValues sequence returns an object equal
\* to the first call's; a call leaves the rawValues it was given unchanged.
C4_AggregationRepeatable == pc = "twice" => obj2 = obj

RECURSIVE AllTruthyDeep(_)
AllTruthyDeep(v) ==
    /\ Truthy(v)
    /\ v.kind = "list" => \A i \in 1..Len(v.l) : AllTruthyDeep(v.l[i])

\* the cells of field k: its columns, and for the last column the overflow
CellsOf(k) ==
    {i \in 1..Len(vals0) :
        \/ i <= Len(fieldnames) /\ fieldnames[i] = k
        \/ i > Len(fieldnames) /\ Len(fieldnames) > 0 /\ LastField = k}
AllCellsEmpty(k) == \A i \in CellsOf(k) : vals0[i] = Str("")

\* C9 as stated: no field holds an empty value anywhere among its accumulated
\* values, the values merged into the last column included, and a field all
\* of whose cells are empty is absent.
C9_NoEmptyValueAnywhere ==
    pc = "once" =>
        /\ \A k \in DOMAIN obj :
                \A i \in 1..Len(obj[k].l) : AllTruthyDeep(obj[k].l[i])
        /\ \A k \in FieldNameSet : AllCellsEmpty(k) => k \notin DOMAIN obj

\* C9 amended: no field's list holds an empty value as one of its elements,
\* a merged list of the last column is not empty and does not end with an
\* empty value (empty cells lying between non-empty overflow values stay in
\* it), and a field all of whose cells are empty is absent.
C9_NoEmptyElementNoTrailingEmpty ==
    pc = "once" =>
        /\ \A k \in DOMAIN obj :
                \A i \in 1..Len(obj[k].l) :
                    LET e == obj[k].l[i] IN
                    /\ Truthy(e)
                    /\ e.kind = "list" => Truthy(e.l[Len(e.l)])
        /\ \A k \in FieldNameSet : AllCellsEmpty(k) => k \notin DOMAIN obj

\* overflow with an empty cell between two values, which stays in the merged
\* list, and an empty cell in an earlier column, whose field is absent
C9_Witness ==
    /\ pc = "once"
    /\ fieldnames = <<"id", "tag">>
    /\ vals0 = <<Str(""), Str("a"), Str(""), Str("b")>>
    /\ DOMAIN obj = {"tag"}
    /\ obj["tag"] = ListV(<<ListV(<<Str("a"), Str(""), Str("b")>>)>>)

\* ------------------------------------------------- context and compaction

MaxListLen == 2
CompactElems ==
    {Str("a"), Str(""), DictV(<<>>), ListV(<<>>), ListV(<<Str("a")>>)}
ContextValues ==
    {DictV(<<>>), DictV(<<Entry("a", Str("x"))>>), ListV(<<DictV(<<>>)>>),
     Str("http://x")}
CtxSet ==
    {DictV(<<>>), DictV(<<Entry("a", Str("y"))>>), DictV(<<Entry("b", Str("y"))>>)}

FieldLists == {ListV(q) : q \in SeqsUpTo(CompactElems, MaxListLen)}
TagLists == {ListV(<<Str("b")>>)}

\* what "for v in vals" yields: the elements of a list, the keys of a dict
Items(v) ==
    IF v.kind = "dict" THEN [i \in 1..Len(v.l) |-> Str(v.l[i].s)] ELSE v.l

\* the filter of the comprehension: anything that is not a container, or a
\* container not entirely made up of empty containers
Keeps(v) ==
    \/ ~IsContainer(v)
    \/ \E i \in 1..Len(Items(v)) :
            ~IsContainer(Items(v)[i]) \/ Truthy(Items(v)[i])

CompactedOffByOne(k, v) ==
    IF k = "@context" THEN v
    ELSE IF Len(v.l) > 2 THEN v
    ELSE v.l[1]

\* the value of the comprehension, for @context and for a list
Compacted(k, v) ==
    IF k = "@context" THEN v
    ELSE IF Len(v.l) > 1 THEN v
    ELSE v.l[1]

_compact_obj(o) ==
    [k \in {x \in DOMAIN o : Keeps(o[x])} |-> Compacted(k, o[k])]

\* d.update(c) on dicts
DictKeys(d) == {d.l[i].s : i \in 1..Len(d.l)}
DictUpdate(d, c) ==
    DictV([i \in 1..Len(d.l) |->
                IF d.l[i].s \in DictKeys(c)
                THEN CHOOSE e \in Range(c.l) : e.s = d.l[i].s
                ELSE d.l[i]]
          \o SelectSeq(c.l, LAMBDA e : e.s \notin DictKeys(d)))

\* _assigned_context(obj, ctx): the object afterwards (it is changed in place)
_assigned_context(o, ctx) ==
    IF "@context" \in DOMAIN o
    THEN Put(o, "@context", DictUpdate(o["@context"], ctx))
    ELSE Put(o, "@context", ctx)

\* objects as the aggregation leaves them: every field a list; a table may
\* have declared an @context of any shape
InitCompact ==
    /\ pc = "assembled"
    /\ \E ks \in SUBSET {"id", "tag", "@context"} :
        obj \in [ks -> ContextValues \cup FieldLists \cup TagLists]
    /\ \A k \in DOMAIN obj :
        CASE k = "@context" -> obj[k] \in ContextValues
          [] k = "tag" -> obj[k] \in TagLists
          [] OTHER -> obj[k] \in FieldLists
    /\ obj2 = EmptyObj
    /\ IdleTrace /\ IdleAssembly /\ IdleRow /\ IdlePath

AssignContext ==
    /\ pc = "assembled"
    /\ \E ctx \in CtxSet :
        IF "@context" \in DOMAIN obj /\ obj["@context"].kind # "dict"
        THEN \* no update() on what is not a dict: AttributeError
             pc' = "failed" /\ obj' = obj
        ELSE pc' = "context" /\ obj' = _assigned_context(obj, ctx)
    /\ UNCHANGED <<obj2, traceVars, assemblyVars, rowVars, pathVars>>

Compact ==
    /\ pc \in {"assembled", "context"}
    /\ obj2' = _compact_obj(obj)
    /\ pc' = "compacted"
    /\ UNCHANGED <<obj, traceVars, assemblyVars, rowVars, pathVars>>

NextCompact == AssignContext \/ Compact
SpecCompact == InitCompact /\ [][NextCompact]_vars

IsEmptyContainer(v) == IsContainer(v) /\ Len(v.l) = 0

\* C5: for an object whose fields other than @context are lists, a list with
\* exactly one element that is not an empty container becomes that element, a
\* list that is empty or made of empty dicts/lists only loses its key, a list
\* of two or more elements not all empty containers is kept unchanged, and
\* the result has no key the input had not.
C5_CompactionOfListFields ==
    pc = "compacted" =>
        /\ DOMAIN obj2 \subseteq DOMAIN obj
        /\ \A k \in DOMAIN obj \ {"@context"} :
            LET q == obj[k].l
                allEmpty == \A i \in 1..Len(q) : IsEmptyContainer(q[i])
            IN  /\ (Len(q) = 1 /\ ~allEmpty) =>
                        k \in DOMAIN obj2 /\ obj2[k] = q[1]
                /\ allEmpty => k \notin DOMAIN obj2
                /\ (Len(q) >= 2 /\ ~allEmpty) =>
                        k \in DOMAIN obj2 /\ obj2[k] = obj[k]

\* one key dropped (only empty containers), one kept as a list although it
\* holds an empty container, one collapsed to its element
C5_Witness ==
    /\ pc = "compacted"
    /\ DOMAIN obj = {"id", "tag", "@context"}
    /\ obj["id"] = ListV(<<DictV(<<>>), Str("a")>>)
    /\ obj2["id"] = obj["id"]
    /\ obj2["tag"] = Str("b")

\* C6: an object that has an @context key, whatever its value, is returned by
\* _compact_obj with the @context key and the same value.
C6_ContextPassesThrough ==
    (pc = "compacted" /\ "@context" \in DOMAIN obj) =>
        "@context" \in DOMAIN obj2 /\ obj2["@context"] = obj["@context"]

\* -------------------------------------------------------- path resolution

MaxCpaths == 2
DirD == <<"d">>
RootR == <<"r">>
RootQ == <<"q">>
ClassRoots == {<<RootR>>, <<RootQ>>}
NamePrefixes == {<<>>, <<"P", "_">>, <<"P", "_", "Q", "_">>}
NameSheets == {<<"n">>, <<"n", "m">>}
NameClasses == {<<>>, <<"@", "C">>, <<"@", "C", "_", "l">>}
NameSuffixes == {<<>>, <<".", "t">>, <<".", "c", ".", "j">>}
CandidateNames ==
    {p \o s \o c \o x : p \in NamePrefixes, s \in NameSheets,
                        c \in NameClasses, x \in NameSuffixes}

\* pathlib: the last component, the path without it, and p / name
Name(p) == p[Len(p)]
Parent(p) == SubSeq(p, 1, Len(p) - 1)
Div(p, n) == IF n = <<>> THEN p ELSE Append(p, n)

\* position (from 1) of the first and of the last c in q; 0 when there is none
Find(q, c) ==
    IF c \in Range(q) THEN CHOOSE i \in 1..Len(q) :
                                q[i] = c /\ \A j \in 1..(i - 1) : q[j] # c
    ELSE 0
RFind(q, c) ==
    IF c \in Range(q) THEN CHOOSE i \in 1..Len(q) :
                                q[i] = c /\ \A j \in (i + 1)..Len(q) : q[j] # c
    ELSE 0
Reverse(q) == [i \in 1..Len(q) |-> q[Len(q) + 1 - i]]

\* pathlib's stem: the name without its last suffix
Stem(n) ==
    LET i == RFind(n, ".") IN
    IF 1 < i /\ i < Len(n) THEN SubSeq(n, 1, i - 1) ELSE n

_get_tabby_prefix_from_sheet_fpath(p) ==
    LET stem == Stem(Name(p)) IN
    IF "_" \notin Range(stem) THEN <<>>
    ELSE SliceTo(stem, (-1) * (Find(Reverse(stem), "_") - 1) - 1)

\* sheet.split(c, maxsplit=1)[0]
BeforeFirst(q, c) == IF Find(q, c) = 0 THEN q ELSE SubSeq(q, 1, Find(q, c) - 1)

\* the name of the file, stripped of prefix and extensions
SheetOf(p) ==
    LET prefix == _get_tabby_prefix_from_sheet_fpath(p)
        sheet == IF prefix # <<>> THEN SliceFrom(Name(p), Len(prefix) + 1)
                 ELSE Name(p)
    IN  BeforeFirst(sheet, ".")

\* fpath.name[len(sheet):]
SuffixOf(p) == SliceFrom(Name(p), Len(SheetOf(p)))

\* the alternative probed below class search path cp
ClassCandidate(p, cp) ==
    LET prefix == _get_tabby_prefix_from_sheet_fpath(p)
        sheet == SheetOf(p)
        at == Find(sheet, "@")
        sname == SubSeq(sheet, 1, at - 1)
        scls == SubSeq(sheet, at + 1, Len(sheet))
    IN  Div(Div(cp, scls),
            prefix \o (IF prefix # <<>> THEN <<"_">> ELSE <<>>) \o sname
                   \o SuffixOf(p))

RECURSIVE FirstExisting(_, _, _, _)
FirstExisting(p, cps, i, disk) ==
    IF i > Len(cps) THEN p
    ELSE IF ClassCandidate(p, cps[i]) \in disk THEN ClassCandidate(p, cps[i])
    ELSE FirstExisting(p, cps, i + 1, disk)

_fpath_or_class_default(p, cps, disk) ==
    IF p \in disk THEN p
    ELSE IF Find(SheetOf(p), "@") = 0 THEN p
    ELSE FirstExisting(p, cps, 1, disk)

\* the alternative the naming convention documents: <cp>/<scls>/<P_><sname><original suffix>
DeclaresClass(p) == Find(SheetOf(p), "@") # 0
DocumentedCandidate(p, cp) ==
    LET prefix == _get_tabby_prefix_from_sheet_fpath(p)
        sheet == SheetOf(p)
        at == Find(sheet, "@")
        sname == SubSeq(sheet, 1, at - 1)
        scls == SubSeq(sheet, at + 1, Len(sheet))
        stripped == IF prefix # <<>> THEN SliceFrom(Name(p), Len(prefix) + 1)
                    ELSE Name(p)
    IN  Div(Div(cp, scls),
            prefix \o (IF prefix # <<>> THEN <<"_">> ELSE <<>>) \o sname
                   \o SliceFrom(stripped, Len(sheet)))

\* every file-system state that matters to the resolution of fpath
ProbedPaths(p, cps) ==
    {p} \cup (IF DeclaresClass(p)
              THEN {ClassCandidate(p, cp) : cp \in Range(cps)}
                   \cup {DocumentedCandidate(p, cp) : cp \in Range(cps)}
              ELSE {})

InitPath ==
    /\ pc = "candidate"
    /\ fpath \in {<<DirD, n>> : n \in CandidateNames}
    /\ cpaths \in SeqsUpTo(ClassRoots, MaxCpaths)
    /\ fs \in SUBSET ProbedPaths(fpath, cpaths)
    /\ orspec = EmptyObj
    /\ IdleTrace /\ IdleAssembly /\ IdleRow /\ IdleObj

Resolve ==
    /\ pc = "candidate"
    /\ ret' = _fpath_or_class_default(fpath, cpaths, fs)
    /\ pc' = "resolved"
    /\ UNCHANGED <<trace, src, pre, assemblyVars, rowVars, objVars, pathVars>>

NextPath == Resolve
SpecPath == InitPath /\ [][NextPath]_vars

Min(S) == CHOOSE x \in S : \A y \in S : x <= y

\* C8: an existing candidate is returned unchanged; a missing candidate that
\* declares no class is returned unchanged; a missing candidate declaring
\* <sname>@<scls>, with or without a prefix P, resolves to the first directory
\* d of cpaths for which d/<scls>/<P_><sname><original suffix> exists, and to
\* the candidate itself when there is none.
C8_ClassDefaultResolution ==
    pc = "resolved" =>
        /\ fpath \in fs => ret = fpath
        /\ (fpath \notin fs /\ ~DeclaresClass(fpath)) => ret = fpath
        /\ (fpath \notin fs /\ DeclaresClass(fpath)) =>
            LET hits == {i \in 1..Len(cpaths) :
                            DocumentedCandidate(fpath, cpaths[i]) \in fs}
            IN  IF hits = {} THEN ret = fpath
                ELSE ret = DocumentedCandidate(fpath, cpaths[Min(hits)])

\* -------------------------------------------------------------- overrides

MaxTemplates == 2
OverrideJson ==
    <<".", "o", "v", "e", "r", "r", "i", "d", "e", ".", "j", "s", "o", "n">>
SheetN == <<DirD, <<"n", ".", "t">>>>
SheetNC == <<DirD, <<"n", "@", "C", ".", "t">>>>

\* A str of the override file is written [kind |-> "tmpl", l |-> parts]: its
\* literal text ("lit") and its replacement fields ("fld"), in order.
Tmpl(parts) == [kind |-> "tmpl", s |-> "", l |-> parts]
Lit(x) == [kind |-> "lit", s |-> x, l |-> <<>>]
Fld(x) == [kind |-> "fld", s |-> x, l |-> <<>>]
TmplIdV1 == Tmpl(<<Fld("id"), Lit("-v1")>>)     \* "{id}-v1"
TmplName == Tmpl(<<Fld("name")>>)               \* "{name}"
TmplPlain == Tmpl(<<Lit("plain")>>)             \* "plain"
SpecUnits == {TmplIdV1, TmplName, TmplPlain, Other("5")}
OverrideSpecs ==
    SpecUnits \cup {ListV(q) : q \in SeqsUpTo(SpecUnits, MaxTemplates)}
OverrideObjs ==
    {o \in UNION {[ks -> {Str("x1"), Str("y"), ListV(<<Str("x1")>>)}] :
                    ks \in SUBSET {"id", "name"}} :
        /\ "id" \in DOMAIN o => o["id"] # Str("y")
        /\ "name" \in DOMAIN o => o["name"] = Str("y")}

\* str(v) and repr(v) of Python
RECURSIVE PyRepr(_)
RECURSIVE JoinRepr(_, _)
JoinRepr(q, i) ==
    IF i > Len(q) THEN ""
    ELSE (IF i > 1 THEN ", " ELSE "") \o PyRepr(q[i]) \o JoinRepr(q, i + 1)
PyRepr(v) ==
    CASE v.kind = "str" -> "'" \o v.s \o "'"
      [] v.kind = "other" -> v.s
      [] v.kind = "list" -> "[" \o JoinRepr(v.l, 1) \o "]"
      [] v.kind = "dict" -> "{" \o JoinRepr(v.l, 1) \o "}"
      [] v.kind = "entry" -> "'" \o v.s \o "': " \o PyRepr(v.l[1])
PyStr(v) == IF v.kind = "str" THEN v.s ELSE PyRepr(v)

\* s.format(**obj): KeyError when a replacement field is no key of obj
RaisesKeyError(s, o) ==
    \E i \in 1..Len(s.l) : s.l[i].kind = "fld" /\ s.l[i].s \notin DOMAIN o
RECURSIVE FormatFrom(_, _, _)
FormatFrom(s, o, i) ==
    IF i > Len(s.l) THEN ""
    ELSE (IF s.l[i].kind = "fld" THEN PyStr(o[s.l[i].s]) ELSE s.l[i].s)
         \o FormatFrom(s, o, i + 1)
Format(s, o) == FormatFrom(s, o, 1)

EmptyStringWhenFieldMissing(s, o) ==
    IF s.kind # "tmpl" THEN <<s>>
    ELSE IF RaisesKeyError(s, o) THEN <<Str("")>>
    ELSE <<Str(Format(s, o))>>

\* one turn of the loop over the templates of a key: what it appends to ov
Interpolated(s, o) ==
    IF s.kind # "tmpl" THEN <<s>>
    ELSE IF RaisesKeyError(s, o) THEN <<>>
    ELSE <<Str(Format(s, o))>>

RECURSIVE OverrideList(_, _, _)
OverrideList(q, o, i) ==
    IF i > Len(q) THEN <<>>
    ELSE Interpolated(q[i], o) \o OverrideList(q, o, i + 1)

\* spec if isinstance(spec, list) else [spec]
AsList(spec) == IF spec.kind = "list" THEN spec.l ELSE <<spec>>

_get_corresponding_override_fpath(p, cps, disk) ==
    _fpath_or_class_default(
        Div(Parent(p), Stem(Name(p)) \o OverrideJson), cps, disk)

\* the override file that answers for sheet p
OverrideFile(p, cps, disk) ==
    _fpath_or_class_default(
        _get_corresponding_override_fpath(p, cps, disk), cps, disk)

\* _build_overrides(src, obj, cpaths), or_ being the content of the file
_build_overrides(p, o, cps, disk, or_) ==
    IF OverrideFile(p, cps, disk) \notin disk THEN EmptyObj
    ELSE [k \in DOMAIN or_ |-> ListV(OverrideList(AsList(or_[k]), o, 1))]

InitOverride ==
    /\ pc = "aggregated"
    /\ fpath \in {SheetN, SheetNC}
    /\ cpaths \in {<<>>, <<<<RootR>>>>}
    /\ fs \in SUBSET {<<DirD, <<"n">> \o OverrideJson>>,
                      <<DirD, <<"n", "@", "C">> \o OverrideJson>>,
                      <<RootR, <<"C">>, <<"n">> \o OverrideJson>>}
    /\ \E ks \in SUBSET {"title", "descr"} :
        orspec \in [ks -> OverrideSpecs]
    /\ "descr" \in DOMAIN orspec => orspec["descr"] = TmplIdV1
    /\ obj \in OverrideObjs
    /\ obj2 = EmptyObj
    /\ IdleTrace /\ IdleAssembly /\ IdleRow

BuildOverrides ==
    /\ pc = "aggregated"
    /\ obj2' = _build_overrides(fpath, obj, cpaths, fs, orspec)
    /\ ret' = OverrideFile(fpath, cpaths, fs)
    /\ pc' = IF OverrideFile(fpath, cpaths, fs) \in fs THEN "overridden"
             ELSE "nooverrides"
    /\ UNCHANGED <<obj, trace, src, pre, assemblyVars, rowVars, pathVars>>

NextOverride == BuildOverrides
SpecOverride == InitOverride /\ [][NextOverride]_vars

Templates(k) == AsList(orspec[k])
Applies(s) ==
    s.kind # "tmpl"
    \/ \A i \in 1..Len(s.l) : s.l[i].kind = "fld" => s.l[i].s \in DOMAIN obj

\* C7: when an override file exists the result has exactly the keys of the
\* spec, and each key maps to the list got by walking its templates in order
\* (a non-list spec is one template): a non-string is passed through, a string
\* is replaced by its interpolation against the object's fields, and only the
\* strings that need a missing field are left out ("{id}-v1" gives
\* ["x1-v1"] for {"id": "x1"} and [] for an object without id).
C7_OverridesOmitOnlyMissingFieldTemplates ==
    pc = "overridden" =>
        /\ DOMAIN obj2 = DOMAIN orspec
        /\ \A k \in DOMAIN orspec :
            LET kept == SelectSeq(Templates(k), Applies) IN
            /\ obj2[k].kind = "list"
            /\ Len(obj2[k].l) = Len(kept)
            /\ \A i \in 1..Len(kept) :
                /\ kept[i].kind # "tmpl" => obj2[k].l[i] = kept[i]
                /\ kept[i].kind = "tmpl" =>
                        obj2[k].l[i] = Str(Format(kept[i], obj))
                /\ (kept[i] = TmplIdV1 /\ obj["id"] = Str("x1")) =>
                        obj2[k].l[i] = Str("x1-v1")
                /\ (kept[i] = TmplIdV1 /\ obj["id"] = ListV(<<Str("x1")>>)) =>
                        obj2[k].l[i] = Str("['x1']-v1")
        /\ \A k \in DOMAIN orspec :
            (orspec[k] = TmplIdV1 /\ "id" \notin DOMAIN obj) =>
                obj2[k] = ListV(<<>>)

\* the file is found below the class directory; the first template of title
\* needs the missing field name and is dropped, its sibling still applies
C7_Witness ==
    /\ pc = "overridden"
    /\ ret = <<RootR, <<"C">>, <<"n">> \o OverrideJson>>
    /\ DOMAIN obj = {"id"}
    /\ DOMAIN orspec = {"title", "descr"}
    /\ orspec["title"] = ListV(<<TmplName, TmplIdV1>>)
    /\ obj2["title"] = ListV(<<Str("x1-v1")>>)

====
